---- MODULE Spec2Model ----
(***************************************************************************)
(* Model of the template replication pipeline of the AI PPT generator:     *)
(*   app/main.py                       generate_presentation (the request) *)
(*   app/services/template_analyzer.py TemplateAnalyzer (allocation plan)  *)
(*   app/services/content_generator.py ContentGenerator (record count)     *)
(*   app/services/slide_renderer.py    SlideRenderer (replication and the  *)
(*                                     removal of watermark shapes)        *)
(*   app/services/slide_populator.py   SlidePopulator (content injection)  *)
(*   app/utils/slide_duplicator.py     copy_shapes, duplicate_slide        *)
(*                                                                         *)
(* Spec is the request handler; SpecRender, SpecPopulate, SpecSanitize,    *)
(* SpecDuplicate and SpecContentSlide call one service on its own, on the  *)
(* objects it works on (shape trees, bullet strings).                      *)
(*                                                                         *)
(* A slide is identified by its 1-based number in the template; a package  *)
(* is the sequence of template slide numbers its slides were cloned from.  *)
(* An instruction text is a sequence of tokens (words separated by white   *)
(* space): "slide", a uniqueness keyword, a sentence terminator, a number  *)
(* literal, an ordinal literal ("2nd") or a spelled ordinal ("second").    *)
(***************************************************************************)
EXTENDS Integers, Sequences, FiniteSets, TLC

VARIABLES
    pc,                    \* position of the request handler
    num_template_slides,   \* slides in the uploaded template
    num_slides,            \* requested slides per presentation
    num_days,              \* requested number of presentations
    template_instructions, \* instruction text (<<>> when absent)
    template_config,       \* plan handed to the later stages, or NoConfig
    llm_called,            \* the interpreter was invoked for this request
    day_num,               \* loop variable of the per-day loop
    slides_content,        \* number of content records of the current day
    output,                \* source slide numbers of the rendered package
    upload_files,          \* files present in the upload directory
    generated_files,       \* the presentations saved so far, one record a day
    template_slides,       \* slide numbers held by the stored template file
    injected,              \* 0-based indexes of the records written so far
    final_prs,             \* shape trees of the slides handed to the sanitizer
    source_shapes,         \* shape tree of the slide being duplicated
    dest_shapes,           \* shape tree of the new slide
    bullet_points,         \* bullet strings of an interior content record
    text_frame,            \* paragraphs of the bullet text box
    stages,                \* the stages run for the request, with their day
    slide_shapes,          \* shapes of the slide being populated
    record,                \* the content record written into that slide
    prs_size,              \* slide width and height of the presentation
    ppt_slides,            \* slides of the package a slide is duplicated in
    existing_rels,         \* part names the package's relationships target
    partname               \* part name chosen for the new slide

vars == << pc, num_template_slides, num_slides, num_days, template_instructions,
           template_config, llm_called, day_num, slides_content, output,
           upload_files, generated_files, template_slides, injected,
           final_prs, source_shapes, dest_shapes, bullet_points, text_frame,
           stages, slide_shapes, record, prs_size, ppt_slides, existing_rels,
           partname >>

\* the objects of the populator's slide routines and of the package writer
slide_parts == << slide_shapes, record, prs_size >>
package_parts == << ppt_slides, existing_rels, partname >>

\* the objects of the services that the request handler model leaves alone
parts == << final_prs, source_shapes, dest_shapes, bullet_points, text_frame,
            slide_parts, package_parts >>

(***************************************************************************)
(* Bounds of the model.                                                    *)
(***************************************************************************)
MaxTemplate == 6
MaxRequired == 9
MaxDays == 2
MaxLlmLen == 1
MaxShapes == 4
MaxDeck == 2
MaxBullets == 10
MaxSuffixes == 2
MaxCoverShapes == 3

(***************************************************************************)
(* Program constants.                                                      *)
(***************************************************************************)
MinSlides == 3
MinTemplateSlides == 3
PatternMaxNum == 20
TocSlide == 2

Min(a, b) == IF a < b THEN a ELSE b
Max(a, b) == IF a > b THEN a ELSE b

\* list(range(a, b + 1)) as a sequence: a, a+1, .., b (empty when b < a)
RangeSeq(a, b) == [i \in 1..Max(b - a + 1, 0) |-> a + i - 1]

SeqElems(s) == {s[i] : i \in 1..Len(s)}

\* [x for x in s if x not in excl]
RECURSIVE FilterNotIn(_, _)
FilterNotIn(s, excl) ==
    IF s = <<>> THEN <<>>
    ELSE IF Head(s) \in SeqElems(excl) THEN FilterNotIn(Tail(s), excl)
    ELSE <<Head(s)>> \o FilterNotIn(Tail(s), excl)

\* sorted(list(S)) for a finite set of integers
RECURSIVE SortedList(_)
SortedList(S) ==
    IF S = {} THEN <<>>
    ELSE LET m == CHOOSE x \in S : \A y \in S : x <= y
         IN <<m>> \o SortedList(S \ {m})

(***************************************************************************)
(* Instruction text.                                                       *)
(***************************************************************************)
Tok(k, n) == [k |-> k, n |-> n]
Slide == Tok("slide", 0)
Kw == Tok("kw", 0)
Stop == Tok("stop", 0)
Num(n) == Tok("num", n)
Ord(n) == Tok("ord", n)
Word(n) == Tok("word", n)

\* number literals a user may write: 0 .. MaxTemplate and one above the
\* range that pattern 4 accepts
NumLits == (0..MaxTemplate) \cup {PatternMaxNum + 1}
OrdLits == 1..MaxTemplate

\* the instruction texts of the requests: none, a keyword without a number,
\* "slide a", "a-th slide", "<a-th word> slide", "unique a b",
\* "a. unique b" (a number outside the keyword's sentence)
Instructions ==
    {<<>>, <<Kw>>}
    \cup {<<Slide, Num(a)>> : a \in NumLits}
    \cup {<<Ord(a), Slide>> : a \in OrdLits}
    \cup {<<Word(a), Slide>> : a \in OrdLits}
    \cup {<<Kw, Num(a), Num(b)>> : a \in OrdLits, b \in NumLits}
    \cup {<<Num(a), Stop, Kw, Num(b)>> : a, b \in OrdLits}

\* i and j lie in the same sentence of re.split(r'[.!?;]', text)
SameSentence(text, i, j) ==
    \A m \in Min(i, j)..Max(i, j) : text[m].k # "stop"

ExtractSlideNumbers(text) ==
    LET n == Len(text)
        \* pattern 1: slide\s+(\d+)
        p1 == {text[i + 1].n : i \in {j \in 1..(n - 1) :
                   text[j].k = "slide" /\ text[j + 1].k \in {"num", "ord"}}}
        \* pattern 2: (\d+)(?:st|nd|rd|th)\s+slide
        p2 == {text[i].n : i \in {j \in 1..(n - 1) :
                   text[j].k = "ord" /\ text[j + 1].k = "slide"}}
        \* pattern 3: \b{word}\s+slide\b
        p3 == {text[i].n : i \in {j \in 1..(n - 1) :
                   text[j].k = "word" /\ text[j + 1].k = "slide"}}
        \* pattern 4: numbers 1..20 of the sentences holding a keyword
        p4 == {text[i].n : i \in {j \in 1..n :
                   /\ text[j].k = "num"
                   /\ 1 <= text[j].n /\ text[j].n <= PatternMaxNum
                   /\ \E q \in 1..n : text[q].k = "kw" /\ SameSentence(text, j, q)}}
    IN SortedList(p1 \cup p2 \cup p3 \cup p4)

(***************************************************************************)
(* Allocation plans.                                                       *)
(***************************************************************************)
Plan(s, u, d) == [strategy |-> s, unique_slides |-> u, duplicate_slides |-> d]

\* template_config = None
NoConfig == Plan("none", <<>>, <<>>)

GetDefaultStrategy(n) ==
    LET unique == IF n >= 2 THEN <<TocSlide>> ELSE <<>>
        all_middle == RangeSeq(2, n - 1)
        dup == FilterNotIn(all_middle, unique)
    IN Plan("default", unique, IF dup = <<>> THEN all_middle ELSE dup)

\* what the interpreter can answer: a failure (an exception, no text, text
\* that json.loads rejects, JSON that is no object), a JSON object without
\* the keys of the schema, or an object with two lists of slide numbers
LlmLists == UNION {[1..l -> 1..MaxTemplate] : l \in 0..MaxLlmLen}
NoResponse ==
    [ok |-> FALSE, keys |-> FALSE, unique_slides |-> <<>>, duplicate_slides |-> <<>>]
EmptyObject ==
    [ok |-> TRUE, keys |-> FALSE, unique_slides |-> <<>>, duplicate_slides |-> <<>>]
LlmResponses ==
    {NoResponse, EmptyObject}
    \cup {[ok |-> TRUE, keys |-> TRUE, unique_slides |-> u, duplicate_slides |-> d] :
              u \in LlmLists, d \in LlmLists}

\* data.get(key, default): a missing key gives the empty list and the
\* strategy text 'Custom template strategy'
AnalyzeWithLlm(n, resp) ==
    IF resp.ok
    THEN Plan(IF resp.keys THEN "llm" ELSE "Custom template strategy",
              resp.unique_slides, resp.duplicate_slides)
    ELSE GetDefaultStrategy(n)

AnalyzeTemplateInstructions(n, text, hasModel, resp) ==
    IF ~hasModel \/ text = <<>> THEN GetDefaultStrategy(n)
    ELSE LET unique == ExtractSlideNumbers(text)
             all_middle == RangeSeq(2, n - 1)
             dup == FilterNotIn(all_middle, unique)
         IN IF unique # <<>>
            THEN Plan("regex", unique, IF dup = <<>> THEN all_middle ELSE dup)
            ELSE AnalyzeWithLlm(n, resp)

\* An analyzer that asks the interpreter first.
LlmReachedMutant(text, hasModel) == hasModel /\ text # <<>>

\* the interpreter is reached only on the last return of the planner
LlmReached(text, hasModel) ==
    hasModel /\ text # <<>> /\ ExtractSlideNumbers(text) = <<>>

(***************************************************************************)
(* Content records: only their number matters to the replicator.           *)
(***************************************************************************)
FallbackContentCount(n, config) ==
    LET toc == TocSlide \in SeqElems(config.unique_slides)
        start_idx == IF toc THEN 3 ELSE 2
    IN 1 + (IF toc THEN 1 ELSE 0) + Max(n - start_idx, 0) + 1

\* l records returned by the generative service
AiContentCount(l, n) ==
    LET taken == Min(l, n)
        filled == Max(taken, n)
    IN Min(filled, n)

(***************************************************************************)
(* Replication.                                                            *)
(***************************************************************************)
RenderUnique(n, config) ==
    IF config # NoConfig THEN config.unique_slides ELSE <<>>

RenderDuplicate(n, config) ==
    IF config # NoConfig THEN config.duplicate_slides ELSE RangeSeq(2, n - 1)

CoverSlide == 1

ClosingSlideMutant(n) == n - 1
ClosingSlide(n) == n

\* slide numbers whose clone is requested for the content positions
ContentSources(n, required, config) ==
    LET unique == RenderUnique(n, config)
        dup == RenderDuplicate(n, config)
        needed == required - 2
        unique_added == Min(Len(unique), Max(needed, 0))
        remaining == needed - unique_added
    IN SubSeq(unique, 1, unique_added)
       \o (IF remaining > 0 /\ dup # <<>>
           THEN [i \in 1..remaining |-> dup[((i - 1) % Len(dup)) + 1]]
           ELSE <<>>)

\* fresh_template.slides[slide_num - 1]: 0 when the collection raises.
\* wraps: the binding accepts negative indices as counted from the end.
SlideAt(n, slide_num, wraps) ==
    IF 1 <= slide_num /\ slide_num <= n THEN slide_num
    ELSE IF slide_num <= 0 /\ wraps /\ n + slide_num >= 1 THEN n + slide_num
    ELSE 0

RenderSources(n, required, config, wraps) ==
    LET req == <<CoverSlide>> \o ContentSources(n, required, config)
               \o <<ClosingSlide(n)>>
    IN [i \in 1..Len(req) |-> SlideAt(n, req[i], wraps)]

(***************************************************************************)
(* The request handler.                                                    *)
(***************************************************************************)
Requests ==
    /\ num_template_slides \in 2..MaxTemplate
    /\ num_slides \in 2..MaxRequired
    /\ num_days \in 0..MaxDays
    /\ template_instructions \in Instructions

\* No service object is under work while the request handler runs.
SlidePartsIdle ==
    /\ slide_shapes = <<>>
    /\ record = <<>>
    /\ prs_size = <<>>

PackagePartsIdle ==
    /\ ppt_slides = <<>>
    /\ existing_rels = {}
    /\ partname = <<>>

PartsIdle ==
    /\ final_prs = <<>>
    /\ source_shapes = <<>>
    /\ dest_shapes = <<>>
    /\ bullet_points = <<>>
    /\ text_frame = <<>>
    /\ SlidePartsIdle
    /\ PackagePartsIdle

Init ==
    /\ Requests
    /\ pc = "received"
    /\ template_config = NoConfig
    /\ llm_called = FALSE
    /\ day_num = 0
    /\ slides_content = 0
    /\ output = <<>>
    /\ upload_files = {}
    /\ generated_files = <<>>
    /\ template_slides = <<>>
    /\ injected = {}
    /\ stages = <<>>
    /\ PartsIdle

request == << num_template_slides, num_slides, num_days, template_instructions >>

\* The template file after a render: the package is saved to a temporary
\* path, the template path is only ever opened for reading.
TemplateAfterRenderMutant(template, package) == package

TemplateAfterRender(template, package) == template

\* Indexes of the records that populate_presentation writes into a package
\* of deck_len slides: the loop stops at the end of the package, index 0 is
\* the cover, index deck_len - 1 is skipped, everything else is content.
PopulatedIndexesMutant(deck_len, records) ==
    {idx \in 0..(records - 1) : idx < deck_len}

PopulatedIndexes(deck_len, records) ==
    {idx \in 0..(records - 1) :
        idx < deck_len /\ (idx = 0 \/ idx # deck_len - 1)}

\* One entry of the stage log: the stage and the day of its presentation
\* (0 for the planner, which runs once, before the per-day loop).
Stage(s, d) == [stage |-> s, day |-> d]

\* render_presentation clones the slides, saves and reloads the package and
\* then removes the watermark shapes; an exception while cloning ends it.
RenderStages(ok, d) ==
    IF ok THEN <<Stage("replicator", d), Stage("sanitizer", d)>>
    ELSE <<Stage("replicator", d)>>

\* A populator that removes watermark shapes again once it has written.
PopulateStagesMutant(d) == <<Stage("injector", d), Stage("sanitizer", d)>>

\* populate_presentation only writes content
PopulateStages(d) == <<Stage("injector", d)>>

ValidateRequest ==
    /\ pc = "received"
    /\ pc' = IF num_slides < MinSlides \/ num_days < 1 THEN "rejected" ELSE "validated"
    /\ UNCHANGED << request, template_config, llm_called, day_num, slides_content,
                    output, upload_files, generated_files, template_slides,
                    injected, parts, stages >>

SaveTemplate ==
    /\ pc = "validated"
    /\ upload_files' = upload_files \cup {"template"}
    /\ template_slides' = RangeSeq(1, num_template_slides)
    /\ pc' = "uploaded"
    /\ UNCHANGED << request, template_config, llm_called, day_num, slides_content,
                    output, generated_files, injected, parts, stages >>

AnalyzeTemplate ==
    /\ pc = "uploaded"
    /\ IF template_instructions # <<>>
       THEN \E hasModel \in BOOLEAN :
               \E resp \in IF LlmReached(template_instructions, hasModel)
                            THEN LlmResponses ELSE {NoResponse} :
                   /\ template_config' = AnalyzeTemplateInstructions(
                          num_template_slides, template_instructions, hasModel, resp)
                   /\ llm_called' = LlmReached(template_instructions, hasModel)
       ELSE UNCHANGED << template_config, llm_called >>
    /\ stages' = IF template_instructions # <<>> THEN <<Stage("planner", 0)>> ELSE <<>>
    /\ day_num' = 1
    /\ pc' = "analyzed"
    /\ UNCHANGED << request, slides_content, output, upload_files, generated_files,
                    template_slides, injected, parts >>

GenerateContent ==
    /\ pc = "analyzed"
    /\ \E aiOk \in BOOLEAN, l \in 0..(MaxRequired + 1) :
           slides_content' = IF aiOk THEN AiContentCount(l, num_slides)
                             ELSE FallbackContentCount(num_slides, template_config)
    /\ pc' = "generated"
    /\ UNCHANGED << request, template_config, llm_called, day_num, output,
                    upload_files, generated_files, template_slides, injected,
                    parts, stages >>

\* A renderer that carries its round-robin position from one presentation of
\* the batch to the next.
RenderPresentationMutant ==
    /\ pc = "generated"
    /\ \E wraps \in BOOLEAN :
         LET src == RenderSources(num_template_slides, slides_content,
                                  template_config, wraps)
             dup == RenderDuplicate(num_template_slides, template_config)
             moved == [i \in 1..Len(src) |->
                         IF 1 < i /\ i < Len(src) /\ dup # <<>>
                         THEN dup[((i + day_num) % Len(dup)) + 1] ELSE src[i]]
         IN IF num_template_slides < MinTemplateSlides \/ 0 \in SeqElems(src)
            THEN pc' = "failed" /\ output' = <<>>
            ELSE pc' = "rendered" /\ output' = moved
    /\ template_slides' = template_slides
    /\ injected' = {}
    /\ stages' = stages \o RenderStages(pc' = "rendered", day_num)
    /\ UNCHANGED << request, template_config, llm_called, day_num, slides_content,
                    upload_files, generated_files, parts >>

RenderPresentation ==
    /\ pc = "generated"
    /\ \E wraps \in BOOLEAN :
         LET src == RenderSources(num_template_slides, slides_content,
                                  template_config, wraps)
         IN /\ IF num_template_slides < MinTemplateSlides \/ 0 \in SeqElems(src)
               THEN pc' = "failed" /\ output' = <<>>
               ELSE pc' = "rendered" /\ output' = src
            /\ template_slides' = TemplateAfterRender(template_slides, src)
    /\ injected' = {}
    /\ stages' = stages \o RenderStages(pc' = "rendered", day_num)
    /\ UNCHANGED << request, template_config, llm_called, day_num, slides_content,
                    upload_files, generated_files, parts >>

PopulatePresentation ==
    /\ pc = "rendered"
    /\ injected' = PopulatedIndexes(Len(output), slides_content)
    /\ stages' = stages \o PopulateStages(day_num)
    /\ pc' = "populated"
    /\ UNCHANGED << request, template_config, llm_called, day_num, slides_content,
                    output, upload_files, generated_files, template_slides, parts >>

SaveOutput ==
    /\ pc = "populated"
    /\ generated_files' = Append(generated_files,
                                 [day |-> day_num, required |-> slides_content,
                                  slides |-> output, populated |-> injected])
    /\ IF day_num < num_days
       THEN day_num' = day_num + 1 /\ pc' = "analyzed"
       ELSE day_num' = day_num /\ pc' = "cleanup"
    /\ UNCHANGED << request, template_config, llm_called, slides_content, output,
                    upload_files, template_slides, injected, parts, stages >>

CleanupAndRespond ==
    /\ pc = "cleanup"
    /\ upload_files' = upload_files \ {"template"}
    /\ template_slides' = <<>>
    /\ pc' = "responded"
    /\ UNCHANGED << request, template_config, llm_called, day_num, slides_content,
                    output, generated_files, injected, parts, stages >>

Next ==
    \/ ValidateRequest
    \/ SaveTemplate
    \/ AnalyzeTemplate
    \/ GenerateContent
    \/ RenderPresentation
    \/ PopulatePresentation
    \/ SaveOutput
    \/ CleanupAndRespond

Spec == Init /\ [][Next]_vars

(***************************************************************************)
(* The replicator called on its own: any template, any number of content   *)
(* records, no plan or any plan of the plan shape.                         *)
(***************************************************************************)
RenderCalls ==
    /\ num_template_slides \in 2..MaxTemplate
    /\ slides_content \in 0..MaxRequired
    /\ template_config \in {NoConfig} \cup
           {Plan("custom", u, d) : u \in LlmLists, d \in LlmLists}

InitRender ==
    /\ RenderCalls
    /\ pc = "generated"
    /\ num_slides = slides_content
    /\ num_days = 1
    /\ template_instructions = <<>>
    /\ llm_called = FALSE
    /\ day_num = 1
    /\ output = <<>>
    /\ upload_files = {"template"}
    /\ generated_files = <<>>
    /\ template_slides = RangeSeq(1, num_template_slides)
    /\ injected = {}
    /\ stages = <<>>
    /\ PartsIdle

NextRender == RenderPresentation

SpecRender == InitRender /\ [][NextRender]_vars

(***************************************************************************)
(* The populator called on its own: a package rendered for one number of   *)
(* records, populated with any number of records.                          *)
(***************************************************************************)
PopulateCalls ==
    /\ num_template_slides \in MinTemplateSlides..MaxTemplate
    /\ slides_content \in 0..MaxRequired
    /\ \E rendered_for \in 0..MaxRequired :
           output = RenderSources(num_template_slides, rendered_for, NoConfig, FALSE)

InitPopulate ==
    /\ PopulateCalls
    /\ pc = "rendered"
    /\ num_slides = slides_content
    /\ num_days = 1
    /\ template_instructions = <<>>
    /\ template_config = NoConfig
    /\ llm_called = FALSE
    /\ day_num = 1
    /\ upload_files = {"template"}
    /\ generated_files = <<>>
    /\ template_slides = RangeSeq(1, num_template_slides)
    /\ injected = {}
    /\ stages = <<>>
    /\ PartsIdle

NextPopulate == PopulatePresentation

SpecPopulate == InitPopulate /\ [][NextPopulate]_vars

(***************************************************************************)
(* Shape trees.  A shape is a text shape (an auto shape or text box, with  *)
(* its text), a picture or a group with its child shapes in document       *)
(* order; via records the call that created the element.  A text is a      *)
(* sequence of words, each with its lower-case spelling and whether it is  *)
(* written with capitals.                                                  *)
(***************************************************************************)
TextWord(w, cap) == [w |-> w, cap |-> cap]

\* the placement of a shape: its offset, its extent and its rotation in degrees
Xfrm(l, t, w, h, r) == [left |-> l, top |-> t, width |-> w, height |-> h, rotation |-> r]

\* a shape at the origin that is not rotated, and one moved and turned
Upright == Xfrm(0, 0, 1, 1, 0)

Rotated == Xfrm(1, 2, 3, 1, 90)

Xfrms == {Upright, Rotated}

TextShape(text) ==
    [kind |-> "text", text |-> text, shapes |-> <<>>, via |-> "template", xfrm |-> Upright]

Picture ==
    [kind |-> "picture", text |-> <<>>, shapes |-> <<>>, via |-> "template", xfrm |-> Upright]

GroupShape(children) ==
    [kind |-> "group", text |-> <<>>, shapes |-> children, via |-> "template",
     xfrm |-> Upright]

\* the shapes placed at x, the nested ones too
RECURSIVE PlacedAt(_, _)
PlacedAt(shapes, x) ==
    [i \in 1..Len(shapes) |->
        [shapes[i] EXCEPT !.xfrm = x, !.shapes = PlacedAt(shapes[i].shapes, x)]]

\* "Agenda" and the evaluation marker "Evaluation only"
Texts == { <<TextWord("agenda", TRUE)>>,
           <<TextWord("evaluation", TRUE), TextWord("only", FALSE)>> }

Leaves == {TextShape(t) : t \in Texts} \cup {Picture}

\* the shape lists of exactly m shapes and the shapes of exactly k shapes,
\* nested ones counted
RECURSIVE ListsOfSize(_), ShapesOfSize(_)
ListsOfSize(m) ==
    IF m = 0 THEN {<<>>}
    ELSE UNION { {<<t>> \o r : t \in ShapesOfSize(k), r \in ListsOfSize(m - k)} :
                 k \in 1..m }

ShapesOfSize(k) ==
    IF k = 1 THEN Leaves \cup {GroupShape(<<>>)}
    ELSE {GroupShape(c) : c \in ListsOfSize(k - 1)}

ShapeLists(n) == UNION {ListsOfSize(m) : m \in 0..n}

\* the presentations of n slides holding at most m shapes in all
RECURSIVE Decks(_, _)
Decks(n, m) ==
    IF n = 0 THEN {<<>>}
    ELSE UNION { {<<sl>> \o d : sl \in ListsOfSize(k), d \in Decks(n - 1, m - k)} :
                 k \in 0..m }

(***************************************************************************)
(* The sanitizer: SlideRenderer._remove_watermarks.                        *)
(***************************************************************************)
\* the words of the keywords; a keyword matches where its words occur in a row
watermark_keywords ==
    { <<"evaluation", "only">>, <<"created", "with", "aspose">>, <<"aspose.slides">>,
      <<"aspose", "pty", "ltd">>, <<"copyright">>, <<"evaluation">>, <<"aspose">>,
      <<"trial", "version">> }

\* text.lower()
Lower(text) == [i \in 1..Len(text) |-> text[i].w]

\* keyword in text
Contains(text, keyword) ==
    \E i \in 1..Len(text) :
        /\ i + Len(keyword) - 1 <= Len(text)
        /\ SubSeq(text, i, i + Len(keyword) - 1) = keyword

\* hasattr(shape, 'text_frame')
HasTextFrame(shape) == shape.kind = "text"

IsWatermark(shape) ==
    /\ HasTextFrame(shape)
    /\ \E keyword \in watermark_keywords : Contains(Lower(shape.text), keyword)

\* the shapes of one slide after the removal: the loop visits slide.shapes,
\* the children of the slide's shape tree
RECURSIVE RemoveFromSlide(_)
RemoveFromSlide(shapes) ==
    IF shapes = <<>> THEN <<>>
    ELSE (IF IsWatermark(Head(shapes)) THEN <<>> ELSE <<Head(shapes)>>)
         \o RemoveFromSlide(Tail(shapes))

RemoveWatermarks ==
    /\ pc = "loaded"
    /\ final_prs' = [i \in 1..Len(final_prs) |-> RemoveFromSlide(final_prs[i])]
    /\ pc' = "sanitized"
    /\ UNCHANGED << request, template_config, llm_called, day_num, slides_content,
                    output, upload_files, generated_files, template_slides,
                    injected, source_shapes, dest_shapes, bullet_points,
                    text_frame >>
    /\ UNCHANGED << stages, slide_parts, package_parts >>

\* The sanitizer called on a presentation of up to MaxDeck slides holding up
\* to MaxShapes shapes in all.
InitSanitize ==
    /\ \E n \in 1..MaxDeck : final_prs \in Decks(n, MaxShapes)
    /\ pc = "loaded"
    /\ num_template_slides = MinTemplateSlides
    /\ num_slides = MinSlides
    /\ num_days = 1
    /\ template_instructions = <<>>
    /\ template_config = NoConfig
    /\ llm_called = FALSE
    /\ day_num = 1
    /\ slides_content = MinSlides
    /\ output = <<>>
    /\ upload_files = {"template"}
    /\ generated_files = <<>>
    /\ template_slides = RangeSeq(1, num_template_slides)
    /\ injected = {}
    /\ source_shapes = <<>>
    /\ dest_shapes = <<>>
    /\ bullet_points = <<>>
    /\ text_frame = <<>>
    /\ stages = <<>>
    /\ SlidePartsIdle
    /\ PackagePartsIdle

NextSanitize == RemoveWatermarks

SpecSanitize == InitSanitize /\ [][NextSanitize]_vars

(***************************************************************************)
(* The slide duplicator: the part name of a new slide.                     *)
(*                                                                         *)
(* A part name is /ppt/slides/slide<letters><number>.xml.  letters = 0     *)
(* stands for no letters, 1..MaxSuffixes for the pairs of ASCII letters    *)
(* that random.choice can draw (52 * 52 in the program).                   *)
(***************************************************************************)
Partname(letters, number) == [letters |-> letters, number |-> number]

\* f"/ppt/slides/slide{len(sldIdLst) + 1}.xml"
FirstPartname(slides) == Partname(0, Len(slides) + 1)

\* the names random_part can give for the slide number of the new slide
RandomPartnames(slides) == {Partname(k, Len(slides) + 1) : k \in 1..MaxSuffixes}

\* One pass of `while partname_str in existing_rels`: the name is taken, two
\* letters are drawn and the name is built again.
RegeneratePartname ==
    /\ pc = "partname"
    /\ partname \in existing_rels
    /\ \E name \in RandomPartnames(ppt_slides) : partname' = name
    /\ UNCHANGED << pc, request, template_config, llm_called, day_num, slides_content,
                    output, upload_files, generated_files, template_slides,
                    injected, final_prs, source_shapes, dest_shapes, bullet_points,
                    text_frame, stages, slide_parts, ppt_slides, existing_rels >>

\* the loop test fails: return PackURI(partname_str)
ReturnPartname ==
    /\ pc = "partname"
    /\ partname \notin existing_rels
    /\ pc' = "named"
    /\ UNCHANGED << request, template_config, llm_called, day_num, slides_content,
                    output, upload_files, generated_files, template_slides,
                    injected, final_prs, source_shapes, dest_shapes, bullet_points,
                    text_frame, stages, slide_parts, package_parts >>

\* generate_slide_partname called on a presentation part of up to MaxDeck
\* slides: its relationships target slides of lower numbers, left by the
\* slides it has, and any of the names of the new slide's number, left by
\* slides whose id was dropped from the slide list.
InitPartname ==
    /\ ppt_slides \in {[i \in 1..k |-> <<>>] : k \in 0..MaxDeck}
    /\ existing_rels \in
           {lower \cup same :
               lower \in SUBSET {Partname(0, m) : m \in 1..Len(ppt_slides)},
               same \in SUBSET ({FirstPartname(ppt_slides)}
                                   \cup RandomPartnames(ppt_slides))}
    /\ partname = FirstPartname(ppt_slides)
    /\ pc = "partname"
    /\ num_template_slides = MinTemplateSlides
    /\ num_slides = MinSlides
    /\ num_days = 1
    /\ template_instructions = <<>>
    /\ template_config = NoConfig
    /\ llm_called = FALSE
    /\ day_num = 1
    /\ slides_content = MinSlides
    /\ output = <<>>
    /\ upload_files = {"template"}
    /\ generated_files = <<>>
    /\ template_slides = RangeSeq(1, num_template_slides)
    /\ injected = {}
    /\ final_prs = <<>>
    /\ source_shapes = <<>>
    /\ dest_shapes = <<>>
    /\ bullet_points = <<>>
    /\ text_frame = <<>>
    /\ stages = <<>>
    /\ SlidePartsIdle

NextPartname == RegeneratePartname \/ ReturnPartname

SpecPartname == InitPartname /\ [][NextPartname]_vars

\* The loop is straight-line code: it takes its next step whenever it has one.
SpecPartnameFair ==
    SpecPartname /\ WF_vars(RegeneratePartname) /\ WF_vars(ReturnPartname)

(***************************************************************************)
(* The slide duplicator: copy_shapes and duplicate_slide.                  *)
(***************************************************************************)
\* add_picture(content, shape.left, shape.top, shape.width, shape.height): the
\* new picture gets the offset and the extent it is given and no rotation;
\* copy_shapes then sets its name and its crops, nothing else.
AddPictureXfrm(x) == Xfrm(x.left, x.top, x.width, x.height, 0)

\* A copy that puts every new shape in front of the ones already copied.
RECURSIVE CopyShapesMutant(_, _)
CopyShapesMutant(source, dest) ==
    IF source = <<>> THEN dest
    ELSE LET shape == Head(source)
             copy == IF shape.kind = "group"
                     THEN [shape EXCEPT !.shapes = CopyShapesMutant(shape.shapes, <<>>),
                                        !.via = "add_group_shape"]
                     ELSE IF shape.kind = "picture"
                     THEN [shape EXCEPT !.via = "add_picture", !.xfrm = AddPictureXfrm(shape.xfrm)]
                     ELSE [shape EXCEPT !.via = "deepcopy"]
         IN CopyShapesMutant(Tail(source), <<copy>> \o dest)

\* copy_shapes(source, dest): the shapes of dest after the call.  A group is
\* added empty and filled by the recursive call, a picture is added from the
\* image bytes, any other shape is a deep copy of the element; each new
\* element goes to the end of dest's shape tree.
RECURSIVE CopyShapes(_, _)
CopyShapes(source, dest) ==
    IF source = <<>> THEN dest
    ELSE LET shape == Head(source)
             copy == IF shape.kind = "group"
                     THEN [shape EXCEPT !.shapes = CopyShapes(shape.shapes, <<>>),
                                        !.via = "add_group_shape"]
                     ELSE IF shape.kind = "picture"
                     THEN [shape EXCEPT !.via = "add_picture", !.xfrm = AddPictureXfrm(shape.xfrm)]
                     ELSE [shape EXCEPT !.via = "deepcopy"]
         IN CopyShapes(Tail(source), Append(dest, copy))

\* the shapes a new slide gets from its layout
LayoutPlaceholder ==
    [kind |-> "text", text |-> <<>>, shapes |-> <<>>, via |-> "layout", xfrm |-> Upright]

\* for shape in list(dest.shapes): remove_shape(shape)
RemovePlaceholders(shapes) == SubSeq(shapes, 1, 0)

\* The shapes whose copy can raise: a picture that is linked, not embedded,
\* has no image (shape.image raises ValueError, which hasattr lets through).
\* Whether a picture is linked is an input; 0 stands for no failure.
CopyFailures(source) == {0} \cup {k \in 1..Len(source) : source[k].kind = "picture"}

\* the shapes copy_shapes has gone through when the copy of shape `failed` raises
CopiedBefore(source, failed) ==
    IF failed = 0 THEN source ELSE SubSeq(source, 1, failed - 1)

\* duplicate_slide: _exp_add_slide creates the slide part under a new name,
\* relates the presentation part to it and adds its id to the slide list;
\* the layout's placeholders are removed and the shapes copied into the new
\* slide; an exception of copy_shapes leaves duplicate_slide at once.  The
\* notes are copied inside a try whose handler only logs.
DuplicateSlide ==
    /\ pc = "duplicate"
    /\ FirstPartname(ppt_slides) \notin existing_rels
    /\ \E failed \in CopyFailures(source_shapes), notes \in {<<>>} \cup Texts,
          notes_failed \in BOOLEAN :
          /\ partname' = FirstPartname(ppt_slides)
          /\ existing_rels' = existing_rels \cup {partname'}
          /\ dest_shapes' = CopyShapes(CopiedBefore(source_shapes, failed),
                                       RemovePlaceholders(dest_shapes))
          /\ ppt_slides' = Append(ppt_slides, dest_shapes')
          /\ IF failed # 0
             THEN pc' = "duplicate_failed" /\ text_frame' = <<>>
             ELSE /\ pc' = "duplicated"
                  /\ text_frame' = IF notes_failed THEN <<>> ELSE notes
    /\ UNCHANGED << request, template_config, llm_called, day_num, slides_content,
                    output, upload_files, generated_files, template_slides,
                    injected, final_prs, source_shapes, bullet_points >>
    /\ UNCHANGED << stages, slide_parts >>

\* duplicate_slide called on a slide of up to MaxShapes shapes; the new slide
\* starts with the placeholders of the layout.
InitDuplicate ==
    /\ source_shapes \in {PlacedAt(l, x) : l \in ShapeLists(MaxShapes), x \in Xfrms}
    /\ dest_shapes \in {<<>>, <<LayoutPlaceholder>>}
    /\ ppt_slides = <<source_shapes>>
    /\ existing_rels = {FirstPartname(<<>>)}
    /\ partname = <<>>
    /\ pc = "duplicate"
    /\ num_template_slides = MinTemplateSlides
    /\ num_slides = MinSlides
    /\ num_days = 1
    /\ template_instructions = <<>>
    /\ template_config = NoConfig
    /\ llm_called = FALSE
    /\ day_num = 1
    /\ slides_content = MinSlides
    /\ output = <<>>
    /\ upload_files = {"template"}
    /\ generated_files = <<>>
    /\ template_slides = RangeSeq(1, num_template_slides)
    /\ injected = {}
    /\ final_prs = <<>>
    /\ bullet_points = <<>>
    /\ text_frame = <<>>
    /\ stages = <<>>
    /\ SlidePartsIdle

NextDuplicate == DuplicateSlide

SpecDuplicate == InitDuplicate /\ [][NextDuplicate]_vars

(***************************************************************************)
(* The bullets of an interior slide: SlidePopulator._add_content_slide.    *)
(* A string is a sequence of runs, a run being a character and the number  *)
(* of times it is repeated; neighbouring runs have different characters.   *)
(***************************************************************************)
Run(c, n) == [c |-> c, n |-> n]

\* len(s)
RECURSIVE StrLen(_)
StrLen(s) == IF s = <<>> THEN 0 ELSE Head(s).n + StrLen(Tail(s))

\* s[:k]
RECURSIVE StrTake(_, _)
StrTake(s, k) ==
    IF s = <<>> \/ k <= 0 THEN <<>>
    ELSE IF Head(s).n >= k THEN <<Run(Head(s).c, k)>>
    ELSE <<Head(s)>> \o StrTake(Tail(s), k - Head(s).n)

\* s[k:]
RECURSIVE StrDrop(_, _)
StrDrop(s, k) ==
    IF s = <<>> \/ k <= 0 THEN s
    ELSE IF Head(s).n > k THEN <<Run(Head(s).c, Head(s).n - k)>> \o Tail(s)
    ELSE StrDrop(Tail(s), k - Head(s).n)

\* a + b
StrCat(a, b) ==
    IF a = <<>> THEN b
    ELSE IF b = <<>> THEN a
    ELSE IF a[Len(a)].c = Head(b).c
    THEN SubSeq(a, 1, Len(a) - 1)
         \o <<Run(Head(b).c, a[Len(a)].n + Head(b).n)>> \o Tail(b)
    ELSE a \o b

Ellipsis == <<Run(".", 3)>>
Space == <<Run(" ", 1)>>

max_bullets == 7
max_bullet_length == 120

\* bullet strings at the limit, one character over it, and short ones
Bullets == { <<Run("a", max_bullet_length)>>,
             <<Run("b", max_bullet_length + 1)>>,
             <<Run("c", 1)>> }

\* A cap that keeps the last max_bullets bullets.
LimitBulletsMutant(bullets) ==
    IF Len(bullets) > max_bullets
    THEN SubSeq(bullets, Len(bullets) - max_bullets + 1, Len(bullets))
    ELSE bullets

\* bullets[:max_bullets]
LimitBullets(bullets) ==
    IF Len(bullets) > max_bullets THEN SubSeq(bullets, 1, max_bullets) ELSE bullets

\* A truncation that appends the marker to max_bullet_length characters.
TruncateBulletMutant(bullet) ==
    IF StrLen(bullet) > max_bullet_length
    THEN StrCat(StrTake(bullet, max_bullet_length), Ellipsis)
    ELSE bullet

\* bullet[:max_bullet_length-3] + "..."
TruncateBullet(bullet) ==
    IF StrLen(bullet) > max_bullet_length
    THEN StrCat(StrTake(bullet, max_bullet_length - 3), Ellipsis)
    ELSE bullet

\* p.text = " " + bullet
ParagraphText(bullet) == StrCat(Space, TruncateBullet(bullet))

\* The paragraphs of the new text box: it starts with one empty paragraph,
\* which takes the first bullet; every further bullet adds a paragraph.
BulletParagraphs(bullets) ==
    LET kept == LimitBullets(bullets)
    IN IF kept = <<>> THEN << [text |-> <<>>, bullet |-> FALSE] >>
       ELSE [i \in 1..Len(kept) |-> [text |-> ParagraphText(kept[i]), bullet |-> TRUE]]

AddContentSlide ==
    /\ pc = "content"
    /\ text_frame' = BulletParagraphs(bullet_points)
    /\ pc' = "content_written"
    /\ UNCHANGED << request, template_config, llm_called, day_num, slides_content,
                    output, upload_files, generated_files, template_slides,
                    injected, final_prs, source_shapes, dest_shapes, bullet_points >>
    /\ UNCHANGED << stages, slide_parts, package_parts >>

\* _add_content_slide called with a record of up to MaxBullets bullets
InitContentSlide ==
    /\ \E n \in 0..MaxBullets : bullet_points \in [1..n -> Bullets]
    /\ text_frame = <<>>
    /\ pc = "content"
    /\ num_template_slides = MinTemplateSlides
    /\ num_slides = MinSlides
    /\ num_days = 1
    /\ template_instructions = <<>>
    /\ template_config = NoConfig
    /\ llm_called = FALSE
    /\ day_num = 1
    /\ slides_content = MinSlides
    /\ output = <<CoverSlide, TocSlide, ClosingSlide(num_template_slides)>>
    /\ upload_files = {"template"}
    /\ generated_files = <<>>
    /\ template_slides = RangeSeq(1, num_template_slides)
    /\ injected = {0}
    /\ final_prs = <<>>
    /\ source_shapes = <<>>
    /\ dest_shapes = <<>>
    /\ stages = <<>>
    /\ SlidePartsIdle
    /\ PackagePartsIdle

NextContentSlide == AddContentSlide

SpecContentSlide == InitContentSlide /\ [][NextContentSlide]_vars

(***************************************************************************)
(* The injector on the cover slide: _add_title_slide_content_smart.        *)
(*                                                                         *)
(* Lengths are in hundredths of an inch (Inches(0.75) is 75), which keeps  *)
(* the areas of the shapes small.  The text of a shape is the words of its *)
(* paragraphs, a paragraph break standing between two paragraphs.          *)
(***************************************************************************)
\* margin = Inches(0.75)
margin == 75

\* title_height = Inches(1.2)
title_height == 120

\* subtitle_height = Inches(0.8)
subtitle_height == 80

ParagraphBreak == TextWord("\n", FALSE)

\* text_frame.clear() leaves one empty paragraph and add_paragraph() adds the
\* one that takes the text
ClearAndAddParagraph(text) == <<ParagraphBreak>> \o text

\* the entries of text_shapes, in document order: the top-level shapes that
\* have a text frame, with their area and their top
TextShapeEntries(shapes) ==
    LET indexes == SelectSeq([i \in 1..Len(shapes) |-> i],
                             LAMBDA i : HasTextFrame(shapes[i]))
    IN [n \in 1..Len(indexes) |->
           [shape |-> indexes[n],
            area |-> shapes[indexes[n]].xfrm.width * shapes[indexes[n]].xfrm.height,
            top |-> shapes[indexes[n]].xfrm.top]]

\* An order that lets the later of two entries of equal key go first.
SortKeyLessMutant(a, b) == a.top < b.top \/ (a.top = b.top /\ a.area >= b.area)

\* key=lambda s: (s['top'], -s['area']): the key of a is less than the key of b
SortKeyLess(a, b) == a.top < b.top \/ (a.top = b.top /\ a.area > b.area)

\* list.sort is stable: an entry goes behind the entries whose key is not
\* greater than its own
RECURSIVE InsertSorted(_, _)
InsertSorted(x, sorted) ==
    IF sorted = <<>> THEN <<x>>
    ELSE IF SortKeyLess(x, Head(sorted)) THEN <<x>> \o sorted
    ELSE <<Head(sorted)>> \o InsertSorted(x, Tail(sorted))

RECURSIVE SortTextShapes(_)
SortTextShapes(entries) ==
    IF entries = <<>> THEN <<>>
    ELSE InsertSorted(entries[Len(entries)],
                      SortTextShapes(SubSeq(entries, 1, Len(entries) - 1)))

\* subtitle = content.bullet_points[0] if content.bullet_points else ''
Subtitle(content) ==
    IF content.bullet_points # <<>> THEN content.bullet_points[1] ELSE <<>>

\* A fraction that is rounded up.
FractionOfMutant(length, percent) == (length * percent + 99) \div 100

\* int(slide_height * 0.35), int(slide_height * 0.52)
FractionOf(length, percent) == (length * percent) \div 100

\* slide.shapes.add_textbox(title_left, top, title_width, height) with the
\* text set through text_frame.text
FallbackTextbox(text, size, percent, height) ==
    [kind |-> "text", text |-> text, shapes |-> <<>>, via |-> "add_textbox",
     xfrm |-> Xfrm(margin, FractionOf(size.height, percent),
                   size.width - 2 * margin, height, 0)]

\* the shapes of the cover slide after the call
TitleSlideShapes(shapes, content, size) ==
    LET text_shapes == SortTextShapes(TextShapeEntries(shapes))
        subtitle == Subtitle(content)
    IN IF Len(text_shapes) >= 2
       THEN [i \in 1..Len(shapes) |->
               IF i = text_shapes[1].shape
               THEN [shapes[i] EXCEPT !.text = ClearAndAddParagraph(content.title)]
               ELSE IF i = text_shapes[2].shape /\ subtitle # <<>>
               THEN [shapes[i] EXCEPT !.text = ClearAndAddParagraph(subtitle)]
               ELSE shapes[i]]
       ELSE shapes
            \o <<FallbackTextbox(content.title, size, 35, title_height)>>
            \o (IF subtitle # <<>>
                THEN <<FallbackTextbox(subtitle, size, 52, subtitle_height)>>
                ELSE <<>>)

AddTitleSlideContent ==
    /\ pc = "cover"
    /\ slide_shapes' = TitleSlideShapes(slide_shapes, record, prs_size)
    /\ pc' = "cover_written"
    /\ UNCHANGED << request, template_config, llm_called, day_num, slides_content,
                    output, upload_files, generated_files, template_slides,
                    injected, final_prs, source_shapes, dest_shapes, bullet_points,
                    text_frame, stages, record, prs_size, package_parts >>

\* the shapes a cover can hold: text shapes at two heights and of two sizes,
\* a picture, and a group around a text shape
CoverXfrms == {Xfrm(100, t, w, 100, 0) : t \in {100, 300}, w \in {400, 800}}

CoverShapes ==
    {[TextShape(<<TextWord("agenda", TRUE)>>) EXCEPT !.xfrm = x] : x \in CoverXfrms}
        \cup {[Picture EXCEPT !.xfrm = Xfrm(0, 0, 400, 300, 0)],
              [GroupShape(<<[TextShape(<<TextWord("agenda", TRUE)>>)
                              EXCEPT !.xfrm = Xfrm(100, 0, 800, 100, 0)]>>)
                  EXCEPT !.xfrm = Xfrm(100, 0, 800, 100, 0)]}

\* the cover records: a title and no bullet, an empty first bullet, one
\* bullet, two bullets
CoverRecords ==
    {[title |-> <<TextWord("course", TRUE)>>, bullet_points |-> b] :
        b \in {<<>>, << <<>> >>, << <<TextWord("overview", TRUE)>> >>,
               << <<TextWord("overview", TRUE)>>, <<TextWord("goals", TRUE)>> >>}}

\* 4:3 and 16:9 slides
SlideSizes == {[width |-> 1000, height |-> 750], [width |-> 1333, height |-> 750]}

InitCover ==
    /\ \E n \in 0..MaxCoverShapes : slide_shapes \in [1..n -> CoverShapes]
    /\ record \in CoverRecords
    /\ prs_size \in SlideSizes
    /\ pc = "cover"
    /\ num_template_slides = MinTemplateSlides
    /\ num_slides = MinSlides
    /\ num_days = 1
    /\ template_instructions = <<>>
    /\ template_config = NoConfig
    /\ llm_called = FALSE
    /\ day_num = 1
    /\ slides_content = MinSlides
    /\ output = <<CoverSlide, TocSlide, ClosingSlide(num_template_slides)>>
    /\ upload_files = {"template"}
    /\ generated_files = <<>>
    /\ template_slides = RangeSeq(1, num_template_slides)
    /\ injected = {}
    /\ final_prs = <<>>
    /\ source_shapes = <<>>
    /\ dest_shapes = <<>>
    /\ bullet_points = <<>>
    /\ text_frame = <<>>
    /\ stages = <<>>
    /\ PackagePartsIdle

NextCover == AddTitleSlideContent

SpecCover == InitCover /\ [][NextCover]_vars

(***************************************************************************)
(* The injector's image on an interior slide: the layout of                *)
(* _add_content_slide and _add_image_strict.  Lengths are in hundredths    *)
(* of an inch, image sizes in pixels.                                      *)
(***************************************************************************)
\* margin_h = Inches(0.7)
margin_h == 70

\* margin_top = Inches(0.9)
margin_top == 90

\* margin_bottom = Inches(0.5)
margin_bottom == 50

\* title_height = Inches(0.7), the title box of an interior slide
content_title_height == 70

\* gap_after_title = Inches(0.2)
gap_after_title == 20

\* int(num / den): the quotient with its fraction dropped, towards zero
Truncate(num, den) ==
    IF num >= 0 THEN num \div den ELSE 0 - ((0 - num) \div den)

\* The region _add_content_slide hands to _add_image_strict when the record
\* has an image concept and the image source is not "none", and the column it
\* leaves to the text.
ImageLayout(size) ==
    LET usable_width == size.width - 2 * margin_h
        content_top == margin_top + content_title_height + gap_after_title
        available_height == size.height - content_top - margin_bottom
        text_width == Truncate(usable_width * 50, 100)
        gap == Truncate(usable_width * 5, 100)
        image_width == Truncate(usable_width * 45, 100)
        image_left == margin_h + text_width + gap
    IN [usable_width |-> usable_width,
        text_width |-> text_width,
        left |-> image_left,
        top |-> content_top,
        max_width |-> IF image_left + image_width > size.width - margin_h
                      THEN (size.width - margin_h) - image_left
                      ELSE image_width,
        max_height |-> available_height]

\* the title box and the bullet box the slide has when the image is added
ContentBoxes(content, size) ==
    LET layout == ImageLayout(size)
    IN << [kind |-> "text", text |-> content.title, shapes |-> <<>>,
           via |-> "add_textbox",
           xfrm |-> Xfrm(margin_h, margin_top, layout.usable_width,
                         content_title_height, 0)],
          [kind |-> "text", text |-> Subtitle(content), shapes |-> <<>>,
           via |-> "add_textbox",
           xfrm |-> Xfrm(margin_h, layout.top, layout.text_width,
                         layout.max_height, 0)] >>

\* the image fitted to the region with its aspect kept, then cut at the right
\* and at the lower edge of the slide; aspect = img_width / img_height
FittedImage(layout, img, size) ==
    LET fits == layout.max_width * img.height <= layout.max_height * img.width
        width1 == IF fits THEN layout.max_width
                  ELSE Truncate(layout.max_height * img.width, img.height)
        height1 == IF fits THEN Truncate(layout.max_width * img.height, img.width)
                   ELSE layout.max_height
        over_right == layout.left + width1 > size.width
        width2 == IF over_right THEN size.width - layout.left ELSE width1
        height2 == IF over_right THEN Truncate(width2 * img.height, img.width)
                   ELSE height1
        over_bottom == layout.top + height2 > size.height
        height3 == IF over_bottom THEN size.height - layout.top ELSE height2
        width3 == IF over_bottom THEN Truncate(height3 * img.width, img.height)
                  ELSE width2
    IN Xfrm(layout.left, layout.top, width3, height3, 0)

\* if left < 0 or top < 0 or left + width > slide_width or
\* top + height > slide_height: return
InvalidBounds(x, size) ==
    \/ x.left < 0
    \/ x.top < 0
    \/ x.left + x.width > size.width
    \/ x.top + x.height > size.height

\* what the image collaborator gives: no URL, a download that fails, or a
\* file of some size in pixels
NoImage == [found |-> FALSE, downloaded |-> FALSE, width |-> 0, height |-> 0]

DownloadFailed == [found |-> TRUE, downloaded |-> FALSE, width |-> 0, height |-> 0]

ImageResults ==
    {NoImage, DownloadFailed}
        \cup {[found |-> TRUE, downloaded |-> TRUE, width |-> w, height |-> h] :
                  w \in {400, 800, 1600}, h \in {300, 600, 1200}}

\* _add_image_strict: nothing is added without a downloaded file or when the
\* bounds test fails; an exception would be logged and swallowed.
AddImageStrict ==
    /\ pc = "image"
    /\ \E img \in ImageResults :
          LET x == FittedImage(ImageLayout(prs_size), img, prs_size)
          IN slide_shapes' =
                IF img.found /\ img.downloaded /\ ~InvalidBounds(x, prs_size)
                THEN Append(slide_shapes,
                            [kind |-> "picture", text |-> <<>>, shapes |-> <<>>,
                             via |-> "add_picture", xfrm |-> x])
                ELSE slide_shapes
    /\ pc' = "image_done"
    /\ UNCHANGED << request, template_config, llm_called, day_num, slides_content,
                    output, upload_files, generated_files, template_slides,
                    injected, final_prs, source_shapes, dest_shapes, bullet_points,
                    text_frame, stages, record, prs_size, package_parts >>

\* 4:3 and 16:9 slides, a portrait slide, and two banners 3 and 2.3 inches
\* high; the lower one leaves no height under the title
ImageSlideSizes ==
    SlideSizes \cup {[width |-> 750, height |-> 1000], [width |-> 1000, height |-> 300],
                     [width |-> 1000, height |-> 230]}

InitImage ==
    /\ record \in CoverRecords
    /\ prs_size \in ImageSlideSizes
    /\ slide_shapes = ContentBoxes(record, prs_size)
    /\ pc = "image"
    /\ num_template_slides = MinTemplateSlides
    /\ num_slides = MinSlides
    /\ num_days = 1
    /\ template_instructions = <<>>
    /\ template_config = NoConfig
    /\ llm_called = FALSE
    /\ day_num = 1
    /\ slides_content = MinSlides
    /\ output = <<CoverSlide, TocSlide, ClosingSlide(num_template_slides)>>
    /\ upload_files = {"template"}
    /\ generated_files = <<>>
    /\ template_slides = RangeSeq(1, num_template_slides)
    /\ injected = {0}
    /\ final_prs = <<>>
    /\ source_shapes = <<>>
    /\ dest_shapes = <<>>
    /\ bullet_points = <<>>
    /\ text_frame = <<>>
    /\ stages = <<>>
    /\ PackagePartsIdle

NextImage == AddImageStrict

SpecImage == InitImage /\ [][NextImage]_vars

(***************************************************************************)
(* Vocabulary of the claims.                                               *)
(***************************************************************************)
Interior(n) == 2..(n - 1)

\* a package has been assembled by the replicator
Rendered == pc \in {"rendered", "populated", "cleanup", "responded"}

\* the plan the replicator applies
PlanUnique == RenderUnique(num_template_slides, template_config)
PlanDuplicate == RenderDuplicate(num_template_slides, template_config)

\* source slide numbers of the content positions of the package
ContentOf(out) == SubSeq(out, 2, Len(out) - 1)

Occurrences(s, x) == Cardinality({i \in 1..Len(s) : s[i] = x})

(***************************************************************************)
(* C1: for a template of at least 3 slides and a required count of at      *)
(* least 3, whatever plan the planner handed over, replication completes   *)
(* and the package has exactly the required number of slides.              *)
(***************************************************************************)
C1_ExactRequiredCount ==
    (num_template_slides >= 3 /\ slides_content >= 3
        /\ pc \in {"rendered", "failed"})
    => (pc = "rendered" /\ Len(output) = slides_content)

(***************************************************************************)
(* C2: in every package the replicator produces, the first slide is a      *)
(* clone of template slide 1 and the last slide is a clone of the          *)
(* template's last slide; no interior slide is first or last.              *)
(***************************************************************************)
C2_CoverFirstClosingLast ==
    output # <<>> =>
        /\ Len(output) >= 2
        /\ output[1] = 1
        /\ output[Len(output)] = num_template_slides
        /\ output[1] \notin Interior(num_template_slides)
        /\ output[Len(output)] \notin Interior(num_template_slides)

C2_Witness ==
    /\ pc = "rendered"
    /\ Len(output) >= 4
    /\ template_config.strategy = "regex"

(***************************************************************************)
(* C3: the content positions hold the first min(|unique|, contentNeeded)   *)
(* indices of plan.unique in ascending order, then                         *)
(* duplicate[i mod len(duplicate)] for i = 0 .. remaining-1.               *)
(***************************************************************************)
C3_UniqueThenRoundRobin ==
    Rendered =>
        LET content == ContentOf(output)
            u == SortedList(SeqElems(PlanUnique))
            d == PlanDuplicate
            needed == slides_content - 2
            k == Min(Len(u), needed)
        IN /\ Len(content) = needed
           /\ \A i \in 1..k : content[i] = u[i]
           /\ \A i \in 1..(needed - k) :
                  d # <<>> /\ content[k + i] = d[((i - 1) % Len(d)) + 1]

(***************************************************************************)
(* C4: every index of plan.unique appears at most once among the sources   *)
(* of the content positions.                                               *)
(***************************************************************************)
C4_UniqueAtMostOnce ==
    Rendered =>
        \A x \in SeqElems(PlanUnique) : Occurrences(ContentOf(output), x) <= 1

(***************************************************************************)
(* C5: with no instruction text the plan applied by the replicator has     *)
(* interior slide 2 unique and every other interior slide duplicate-       *)
(* eligible, and the package is cover, slide 2 once, the others in         *)
(* round-robin, closing.                                                   *)
(***************************************************************************)
C5_NoInstructionPlan ==
    (template_instructions = <<>> /\ Rendered) =>
        /\ SeqElems(PlanUnique) = {2}
        /\ (num_template_slides >= 4 =>
                SeqElems(PlanDuplicate) = Interior(num_template_slides) \ {2})
        /\ output = <<1>> \o ContentSources(num_template_slides, slides_content,
                                 GetDefaultStrategy(num_template_slides))
                         \o <<num_template_slides>>

(***************************************************************************)
(* C6: a plan built by pattern extraction has unique = (numbers matched    *)
(* by the four patterns) intersected with the interior range [2, N-1] and  *)
(* duplicate = the remaining interior indices (the whole interior when     *)
(* none remains).                                                          *)
(***************************************************************************)
C6_ExtractedPlan ==
    (template_config.strategy = "regex" /\ num_template_slides >= 3) =>
        LET inter == Interior(num_template_slides)
            uniq == SeqElems(ExtractSlideNumbers(template_instructions)) \cap inter
        IN /\ SeqElems(template_config.unique_slides) = uniq
           /\ SeqElems(template_config.duplicate_slides) =
                  (IF inter \ uniq = {} THEN inter ELSE inter \ uniq)

(***************************************************************************)
(* C7: every plan returned by the planner for a template of at least 3     *)
(* slides has unique and duplicate disjoint.                               *)
(***************************************************************************)
C7_UniqueDuplicateDisjoint ==
    (template_config # NoConfig /\ num_template_slides >= 3) =>
        SeqElems(template_config.unique_slides)
            \cap SeqElems(template_config.duplicate_slides) = {}

(***************************************************************************)
(* C8: every plan returned by the planner has unique and duplicate inside  *)
(* the interior range [2, N-1]; slide 1 and slide N are in neither.        *)
(***************************************************************************)
C8_PlanWithinInterior ==
    (template_config # NoConfig /\ num_template_slides >= 3) =>
        (SeqElems(template_config.unique_slides)
            \cup SeqElems(template_config.duplicate_slides))
                \subseteq Interior(num_template_slides)

(***************************************************************************)
(* C9: for a template of fewer than 3 slides the planner returns no plan   *)
(* and neither content generation nor replication runs.                    *)
(***************************************************************************)
C9_InvalidTemplateStopsAtPlanner ==
    num_template_slides < 3 =>
        /\ template_config = NoConfig
        /\ pc \notin {"generated", "rendered", "populated", "cleanup", "responded"}
        /\ slides_content = 0

(***************************************************************************)
(* C10: the replicator fails and produces no package whenever the          *)
(* required slide count is below 3.                                        *)
(***************************************************************************)
C10_ReplicateRejectsShortCount ==
    (slides_content < 3 /\ pc # "generated") =>
        (pc = "failed" /\ output = <<>>)

\* C10, request level: a slide count below 3 is rejected before any file is
\* written or any stage runs
C10_RequestRejectedEarly ==
    num_slides < 3 =>
        /\ pc \in {"received", "rejected"}
        /\ upload_files = {} /\ generated_files = <<>>
        /\ template_config = NoConfig /\ slides_content = 0 /\ output = <<>>

C15_ClosingSlideUntouched ==
    /\ output # <<>> => (Len(output) - 1) \notin injected
    /\ \A i \in 1..Len(generated_files) :
           (Len(generated_files[i].slides) - 1) \notin generated_files[i].populated

C15_Witness ==
    /\ pc = "populated"
    /\ slides_content > Len(output)
    /\ Len(output) >= 4
    /\ injected = 0..(Len(output) - 2)

(***************************************************************************)
(* C17: whenever a request reports success, every presentation produced    *)
(* has exactly the requested number of slides and has had its cover record *)
(* and every interior record written into it.                              *)
(***************************************************************************)
C17_NoPartialPackage ==
    pc = "responded" =>
        \A i \in 1..Len(generated_files) :
            /\ Len(generated_files[i].slides) = num_slides
            /\ generated_files[i].populated = 0..(num_slides - 2)

(***************************************************************************)
(* C18: while the uploaded template is stored, through analysis, content   *)
(* generation, replication, sanitizing and injection of every presentation *)
(* of the batch, its slide sequence is the uploaded one.                   *)
(***************************************************************************)
C18_TemplateNeverMutated ==
    "template" \in upload_files =>
        template_slides = RangeSeq(1, num_template_slides)

C18_Witness ==
    /\ pc = "populated"
    /\ day_num = 2
    /\ "template" \in upload_files
    /\ Len(output) > Len(template_slides)
    /\ injected # {}

(***************************************************************************)
(* C19: no execution of a request ends with an uploaded copy still in the  *)
(* upload directory: on every exit path, the failing ones included, the    *)
(* files written by the request have been removed.                         *)
(***************************************************************************)
C19_TransientFilesReleased ==
    pc \in {"rejected", "failed", "responded"} => upload_files = {}

(***************************************************************************)
(* C20: every plan returned by the planner for a template of at least 3    *)
(* slides has a non-empty duplicate list: the interior slides that are not *)
(* unique, or the whole interior when no such slide exists.                *)
(***************************************************************************)
C20_DuplicateNeverEmpty ==
    (template_config # NoConfig /\ num_template_slides >= 3) =>
        /\ template_config.duplicate_slides # <<>>
        /\ LET rest == Interior(num_template_slides)
                           \ SeqElems(template_config.unique_slides)
           IN SeqElems(template_config.duplicate_slides) =
                  IF rest = {} THEN Interior(num_template_slides) ELSE rest

(***************************************************************************)
(* C12: a call of the sanitizer leaves, on every slide, exactly the shapes *)
(* of the slide's shape tree whose lower-cased text contains no denylist   *)
(* entry, in their order and at their place in the tree: every matching    *)
(* shape is detached, wherever in the tree it is, every other shape stays, *)
(* and a presentation without markers is unchanged.                        *)
(***************************************************************************)
RECURSIVE WithoutWatermarks(_)
WithoutWatermarks(shapes) ==
    IF shapes = <<>> THEN <<>>
    ELSE LET shape == Head(shapes)
         IN (IF IsWatermark(shape) THEN <<>>
             ELSE <<[shape EXCEPT !.shapes = WithoutWatermarks(shape.shapes)]>>)
            \o WithoutWatermarks(Tail(shapes))

C12_SanitizeDetachesEveryMarker ==
    [][RemoveWatermarks =>
          /\ Len(final_prs') = Len(final_prs)
          /\ \A i \in 1..Len(final_prs) :
                 final_prs'[i] = WithoutWatermarks(final_prs[i])]_vars

(***************************************************************************)
(* C16: after a slide is duplicated, every group of the new slide has as   *)
(* many children as the group it was cloned from, of the same kinds and    *)
(* texts in the same order, and so have the groups nested in it, at every  *)
(* depth and for every mix of text shapes, pictures and groups.            *)
(***************************************************************************)
RECURSIVE SameChildren(_, _)
SameChildren(a, b) ==
    /\ Len(a) = Len(b)
    /\ \A i \in 1..Len(a) :
           /\ a[i].kind = b[i].kind
           /\ a[i].text = b[i].text
           /\ SameChildren(a[i].shapes, b[i].shapes)

C16_GroupCloneKeepsChildren ==
    pc = "duplicated" => SameChildren(source_shapes, dest_shapes)

C16_Witness ==
    /\ pc = "duplicated"
    /\ \E i \in 1..Len(source_shapes) :
           /\ source_shapes[i].kind = "group"
           /\ Len(source_shapes[i].shapes) = 2
           /\ Len(dest_shapes[i].shapes) = 2
           /\ source_shapes[i].shapes[1].kind = "picture"
           /\ source_shapes[i].shapes[2].kind = "group"
           /\ Len(source_shapes[i].shapes[2].shapes) = 1
           /\ dest_shapes[i].via = "add_group_shape"

(***************************************************************************)
(* C13: the bullet text box written for an interior record holds           *)
(* min(len(bullets), 7) bullets, and they are the first bullets of the     *)
(* record in their order; a record of 10 bullets yields 7.                 *)
(***************************************************************************)
WrittenBullets == SelectSeq(text_frame, LAMBDA p : p.bullet)

\* the paragraph text, after its first character, starts as the bullet does
StartsAs(text, bullet) ==
    LET k == Min(StrLen(bullet), 117)
    IN StrLen(text) >= k + 1 /\ StrTake(StrDrop(text, 1), k) = StrTake(bullet, k)

C13_AtMostSevenFirstBullets ==
    pc = "content_written" =>
        /\ Len(WrittenBullets) = Min(Len(bullet_points), 7)
        /\ \A i \in 1..Len(WrittenBullets) :
               StartsAs(WrittenBullets[i].text, bullet_points[i])

C13_Witness ==
    /\ pc = "content_written"
    /\ Len(bullet_points) = 10
    /\ Len(WrittenBullets) = 7
    /\ bullet_points[1] # bullet_points[8]
    /\ bullet_points[1] # bullet_points[2]

(***************************************************************************)
(* C14, as written: a bullet longer than 120 characters is written so that *)
(* the paragraph text ends with "..." and is at most 120 characters long;  *)
(* a bullet of at most 120 characters is written as the paragraph text     *)
(* unmodified.                                                             *)
(***************************************************************************)
C14_TruncatedWithinLimit ==
    pc = "content_written" =>
        \A i \in 1..Len(WrittenBullets) :
            LET text == WrittenBullets[i].text
                bullet == bullet_points[i]
            IN IF StrLen(bullet) > 120
               THEN /\ StrDrop(text, StrLen(text) - 3) = Ellipsis
                    /\ StrLen(text) <= 120
               ELSE text = bullet

(***************************************************************************)
(* C14, amended: every paragraph text is one space followed by the bullet  *)
(* as kept; a bullet longer than 120 characters is kept as its first 117   *)
(* characters followed by "...", 120 characters in all, and a bullet of at *)
(* most 120 characters is kept unmodified.                                 *)
(***************************************************************************)
C14_TruncatedAfterPadding ==
    pc = "content_written" =>
        \A i \in 1..Len(WrittenBullets) :
            LET text == WrittenBullets[i].text
                kept == StrDrop(text, 1)
                bullet == bullet_points[i]
            IN /\ StrTake(text, 1) = Space
               /\ IF StrLen(bullet) > 120
                  THEN /\ StrDrop(kept, StrLen(kept) - 3) = Ellipsis
                       /\ StrLen(kept) = 120
                       /\ StrTake(kept, 117) = StrTake(bullet, 117)
                  ELSE kept = bullet

C14_Witness ==
    /\ pc = "content_written"
    /\ \E i, j \in 1..Len(WrittenBullets) :
           /\ StrLen(bullet_points[i]) = 121
           /\ StrLen(WrittenBullets[i].text) = 121
           /\ StrLen(bullet_points[j]) = 120

(***************************************************************************)
(* C21: the interpreter is invoked only for a non-empty instruction text   *)
(* from which pattern extraction has returned no slide number; it is never *)
(* invoked when extraction yields a number.                                *)
(***************************************************************************)
C21_InterpreterOnlyAfterEmptyExtraction ==
    llm_called =>
        /\ template_instructions # <<>>
        /\ ExtractSlideNumbers(template_instructions) = <<>>

C21_Witness ==
    /\ llm_called
    /\ template_config.strategy = "llm"
    /\ template_config.unique_slides # <<>>
    /\ pc = "rendered"

(***************************************************************************)
(* C22: after a delegation to the interpreter the plan is either the       *)
(* interpreter's answer with its unique and duplicate lists, or, when the  *)
(* call failed or the answer lacks the lists, exactly the default plan.    *)
(***************************************************************************)
C22_InterpreterFailureGivesDefault ==
    (llm_called /\ num_template_slides >= 3) =>
        \/ template_config.strategy = "llm"
        \/ template_config = GetDefaultStrategy(num_template_slides)

(***************************************************************************)
(* C23: whenever the planner is given an instruction text from which       *)
(* pattern extraction yields slide numbers, the plan has those numbers as  *)
(* its unique list, with or without a configured interpreter.              *)
(***************************************************************************)
C23_ExtractionUsedWithoutInterpreter ==
    (template_config # NoConfig /\ num_template_slides >= 3
         /\ ExtractSlideNumbers(template_instructions) # <<>>) =>
        /\ template_config.strategy = "regex"
        /\ template_config.unique_slides = ExtractSlideNumbers(template_instructions)

(***************************************************************************)
(* C30: the stages of a request run one after the other, the planner       *)
(* before every presentation and, for each presentation, the replicator,   *)
(* then the sanitizer, then the injector: the sanitizer starts after the   *)
(* cloning, the injector after the sanitizer, no sanitizer runs after the  *)
(* injector, and the stages of one presentation do not interleave with     *)
(* those of another.                                                       *)
(***************************************************************************)
StageRank(s) ==
    CASE s = "planner" -> 0
      [] s = "replicator" -> 1
      [] s = "sanitizer" -> 2
      [] s = "injector" -> 3

C30_StagesInOrder ==
    \A i, j \in 1..Len(stages) :
        i < j =>
            \/ stages[i].day < stages[j].day
            \/ /\ stages[i].day = stages[j].day
               /\ StageRank(stages[i].stage) < StageRank(stages[j].stage)

C30_Witness ==
    /\ pc = "populated"
    /\ day_num = 2
    /\ Len(stages) = 7
    /\ stages[1].stage = "planner"
    /\ stages[7] = Stage("injector", 2)

(***************************************************************************)
(* C27: after a slide is duplicated, every shape of the new slide, leaf,   *)
(* group or picture at any depth, has the offset, the extent and the       *)
(* rotation of the shape it was cloned from.                               *)
(***************************************************************************)
RECURSIVE SamePlacement(_, _)
SamePlacement(a, b) ==
    /\ Len(a) = Len(b)
    /\ \A i \in 1..Len(a) :
           /\ a[i].xfrm = b[i].xfrm
           /\ SamePlacement(a[i].shapes, b[i].shapes)

C27_ClonePlacementKept ==
    pc = "duplicated" => SamePlacement(source_shapes, dest_shapes)

(***************************************************************************)
(* C28: generating the part name of a new slide always terminates: it      *)
(* ends by returning a name or by reporting a partial clone failure once   *)
(* its retries are used up.                                                *)
(***************************************************************************)
C28_PartnameTerminates == <>(pc \in {"named", "partial_clone_failure"})

(***************************************************************************)
(* C29: a slide clone is all-or-nothing: when the copy of a shape fails,   *)
(* the slide sequence and the relationships of the package are the ones    *)
(* it had before duplicate_slide was called.                               *)
(***************************************************************************)
C29_CloneAllOrNothing ==
    [][pc' = "duplicate_failed" =>
          /\ ppt_slides' = ppt_slides
          /\ existing_rels' = existing_rels]_vars

(***************************************************************************)
(* C24: on a cover slide with at least two shapes that can hold text, the  *)
(* title goes into the shape that comes first by top, then by larger area, *)
(* then by document order, the subtitle (the first bullet, when there is   *)
(* one) into the shape that comes second, and every other shape is left    *)
(* as it was.                                                              *)
(***************************************************************************)
TextCapable(shapes) == {i \in 1..Len(shapes) : HasTextFrame(shapes[i])}

ComesBefore(shapes, i, j) ==
    LET a == shapes[i].xfrm
        b == shapes[j].xfrm
    IN \/ a.top < b.top
       \/ /\ a.top = b.top
          /\ \/ a.width * a.height > b.width * b.height
             \/ a.width * a.height = b.width * b.height /\ i < j

Rank(shapes, i) == Cardinality({j \in TextCapable(shapes) : ComesBefore(shapes, j, i)}) + 1

IsFallbackBox(box, text, percent) ==
    /\ box.kind = "text"
    /\ box.via = "add_textbox"
    /\ box.text = text
    /\ box.xfrm.top * 100 <= prs_size.height * percent
    /\ prs_size.height * percent < (box.xfrm.top + 1) * 100
    /\ box.xfrm.left = margin
    /\ box.xfrm.left + box.xfrm.width = prs_size.width - margin

HasSubtitle == record.bullet_points # <<>> /\ record.bullet_points[1] # <<>>

FallbackTaken ==
    pc = "cover" /\ pc' = "cover_written" /\ Cardinality(TextCapable(slide_shapes)) < 2

C25_FallbackBoxes ==
    [][FallbackTaken =>
          LET n == Len(slide_shapes)
          IN /\ Len(slide_shapes') = n + (IF HasSubtitle THEN 2 ELSE 1)
             /\ SubSeq(slide_shapes', 1, n) = slide_shapes
             /\ IsFallbackBox(slide_shapes'[n + 1], record.title, 35)
             /\ HasSubtitle =>
                    IsFallbackBox(slide_shapes'[n + 2], record.bullet_points[1], 52)]_vars

\* the statement with two boxes for every record
C25_TwoFallbackBoxes ==
    [][FallbackTaken =>
          LET n == Len(slide_shapes)
          IN /\ Len(slide_shapes') = n + 2
             /\ SubSeq(slide_shapes', 1, n) = slide_shapes
             /\ IsFallbackBox(slide_shapes'[n + 1], record.title, 35)
             /\ IsFallbackBox(slide_shapes'[n + 2], Subtitle(record), 52)]_vars

\* a cover with one text shape and a picture, and a record with one bullet:
\* both boxes behind the two shapes, which keep their text
C25_Witness ==
    /\ pc = "cover_written"
    /\ Len(slide_shapes) = 4
    /\ slide_shapes[1].kind = "text" /\ slide_shapes[1].text = <<TextWord("agenda", TRUE)>>
    /\ slide_shapes[2].kind = "picture"
    /\ slide_shapes[3].via = "add_textbox" /\ slide_shapes[3].text = record.title
    /\ slide_shapes[3].xfrm.top = 262
    /\ slide_shapes[4].via = "add_textbox" /\ slide_shapes[4].xfrm.top = 390
    /\ prs_size.width = 1333 /\ slide_shapes[4].xfrm.width = 1183

(***************************************************************************)
(* C26: an image placed on an interior slide has a width and a height      *)
(* above zero and lies inside the slide: its left edge plus its width is   *)
(* at most the slide width, its top plus its height at most the slide      *)
(* height.                                                                 *)
(***************************************************************************)
C26_ImageInsideSlide ==
    \A i \in 1..Len(slide_shapes) :
        slide_shapes[i].via = "add_picture" =>
            /\ slide_shapes[i].xfrm.width > 0
            /\ slide_shapes[i].xfrm.height > 0
            /\ slide_shapes[i].xfrm.left + slide_shapes[i].xfrm.width <= prs_size.width
            /\ slide_shapes[i].xfrm.top + slide_shapes[i].xfrm.height <= prs_size.height

====
